---- MODULE Spec2Model ----
(***************************************************************************)
(* Curriculens (app.py): the Streamlit script main() as a state machine    *)
(* over st.session_state and the widgets, and the pure helpers             *)
(* extract_chapters, extract_keywords, the chapter-scoped selectors and    *)
(* the prompt builders as operators over strings.                          *)
(*                                                                         *)
(* A Python str is a TLA+ string; a character is a string of length 1.     *)
(***************************************************************************)
EXTENDS Integers, Sequences, FiniteSets, TLC

VARIABLES
    content_type,    \* st.radio "What are you uploading?"
    uploaded_file,   \* st.file_uploader: NoFile or a file of Files
    chat_input,      \* st.text_input key="chat_input" (kept across reruns)
    extracted_text,  \* st.session_state.extracted_text
    chapters,        \* st.session_state.chapters
    chat_history,    \* st.session_state.chat_history
    all_generated,   \* st.session_state.all_generated
    trigger,         \* the widget interaction that started the current script run
    buttons,         \* the st.button widgets the last script run put on the page
    exported,        \* the buffers handed to st.download_button by the export step
    parsed,          \* what parser.extract_text returned for the last successful upload
    error,           \* the st.error messages of the current script run
    pc,              \* position in main(), or in the helper under study
    args,            \* arguments of the helper call under study
    ret              \* its (intermediate) result

vars == <<content_type, uploaded_file, chat_input, extracted_text, chapters,
          chat_history, all_generated, trigger, buttons, exported,
          parsed, error, pc, args, ret>>

session == <<content_type, uploaded_file, chat_input, extracted_text, chapters,
             chat_history, all_generated, trigger, buttons, exported,
             parsed, error>>

-----------------------------------------------------------------------------
(* Bounds of the model.                                                    *)

MaxLines == 3

MaxSelectLines == 4

MaxWords == 4

MaxKeywords == 2

MaxGenerated == 1

MaxChat == 1

-----------------------------------------------------------------------------
(* Python values.                                                          *)

\* Python's None where a str is expected (no text of the model equals it).
None == "<None>"

\* Python's None where a chapter number is expected (int(\d+) is never negative).
NoChapter == -1

\* The empty dict {}.
EmptyDict == [n \in {} |-> ""]

Min(S) == CHOOSE x \in S : \A y \in S : x <= y

Char(t, i) == SubSeq(t, i, i)

UpperLetters == "ABCDEFGHIJKLMNOPQRSTUVWXYZ"

LowerLetters == "abcdefghijklmnopqrstuvwxyz"

LowerTable == [c \in {Char(UpperLetters, i) : i \in 1..26} |->
                 Char(LowerLetters, CHOOSE i \in 1..26 : Char(UpperLetters, i) = c)]

\* str.lower() on one character.
LowerChar(c) == IF c \in DOMAIN LowerTable THEN LowerTable[c] ELSE c

RECURSIVE LowerText(_)
\* str.lower().
LowerText(t) ==
    IF Len(t) = 0 THEN ""
    ELSE IF Len(t) = 1 THEN LowerChar(t)
    ELSE LET h == Len(t) \div 2
         IN  LowerText(SubSeq(t, 1, h)) \o LowerText(SubSeq(t, h + 1, Len(t)))

\* The regex classes \s, \d and [\s:\-].
IsSpace(c) == c \in {" ", "\n", "\t", "\r"}

IsDigit(c) == c \in {"0", "1", "2", "3", "4", "5", "6", "7", "8", "9"}

IsSep(c) == IsSpace(c) \/ c \in {":", "-"}

\* A literal of a regex compiled with re.IGNORECASE matches at position i
\* (w is given in lower case).
LiteralAt(t, i, w) ==
    /\ i >= 1
    /\ i + Len(w) - 1 <= Len(t)
    /\ LowerText(SubSeq(t, i, i + Len(w) - 1)) = w

\* The characters that match the lower-case character c under re.IGNORECASE.
Cased(c) == {c} \cup {u \in DOMAIN LowerTable : LowerTable[u] = c}

\* The positions of t where the first character of the literal w matches.
FirstCharAt(t, w) ==
    LET first == Cased(Char(w, 1))
    IN  {i \in 1..Len(t) : Char(t, i) \in first}

RECURSIVE SpaceRun(_, _)
\* \s+ from position i, greedy: the position after the run.
SpaceRun(t, i) == IF i <= Len(t) /\ IsSpace(Char(t, i)) THEN SpaceRun(t, i + 1) ELSE i

RECURSIVE DigitRun(_, _)
\* \d+ from position i, greedy: the position after the run.
DigitRun(t, i) == IF i <= Len(t) /\ IsDigit(Char(t, i)) THEN DigitRun(t, i + 1) ELSE i

RECURSIVE SepRun(_, _)
\* [\s:\-]+ from position i, greedy: the position after the run.
SepRun(t, i) == IF i <= Len(t) /\ IsSep(Char(t, i)) THEN SepRun(t, i + 1) ELSE i

RECURSIVE LineRun(_, _)
\* [^\n]+ from position i, greedy: the position after the run.
LineRun(t, i) == IF i <= Len(t) /\ Char(t, i) # "\n" THEN LineRun(t, i + 1) ELSE i

RECURSIVE StripLeft(_)
StripLeft(t) == IF Len(t) > 0 /\ IsSpace(Char(t, 1))
                THEN StripLeft(SubSeq(t, 2, Len(t))) ELSE t

RECURSIVE StripRight(_)
StripRight(t) == IF Len(t) > 0 /\ IsSpace(Char(t, Len(t)))
                 THEN StripRight(SubSeq(t, 1, Len(t) - 1)) ELSE t

\* str.strip().
Strip(t) == StripRight(StripLeft(t))

DigitValue(c) == CHOOSE d \in 0..9 : Char("0123456789", d + 1) = c

RECURSIVE ParseInt(_)
\* int(s) for a string of decimal digits.
ParseInt(s) ==
    IF Len(s) = 0 THEN 0
    ELSE 10 * ParseInt(SubSeq(s, 1, Len(s) - 1)) + DigitValue(Char(s, Len(s)))

RECURSIVE FormatInt(_)
\* str(n), as an f-string formats a non-negative int.
FormatInt(n) ==
    IF n < 10 THEN Char("0123456789", n + 1)
    ELSE FormatInt(n \div 10) \o Char("0123456789", (n % 10) + 1)

-----------------------------------------------------------------------------
(* extract_chapters.                                                       *)

\* The four regexes, each compiled with re.IGNORECASE: the literal that opens
\* it (in lower case) and whether it has the title group ([\s:\-]+)([^\n]+).
CHAPTER_PATTERNS ==
    << [keyword |-> "chapter", titled |-> TRUE],
       [keyword |-> "chapter", titled |-> TRUE],
       [keyword |-> "chapter", titled |-> FALSE],
       [keyword |-> "section", titled |-> TRUE] >>

NoMatch == [found |-> FALSE]

\* keyword\s+(\d+) at position i: the number group and the position after it.
NumberAt(t, i, keyword) ==
    IF ~LiteralAt(t, i, keyword) THEN NoMatch
    ELSE LET s == i + Len(keyword)
             d == SpaceRun(t, s)
             e == DigitRun(t, d)
         IN  IF d = s \/ e = d THEN NoMatch
             ELSE [found |-> TRUE, num |-> SubSeq(t, d, e - 1), end |-> e]

\* The title group after the number: [\s:\-]+ is greedy and gives characters
\* back until a character other than a newline follows it.
TitleAt(t, e) ==
    LET q == SepRun(t, e)
        starts == {p \in (e + 1)..q : p <= Len(t) /\ Char(t, p) # "\n"}
    IN  IF q = e \/ starts = {} THEN NoMatch
        ELSE LET p == CHOOSE x \in starts : \A y \in starts : y <= x
                 z == LineRun(t, p)
             IN  [found |-> TRUE, name |-> SubSeq(t, p, z - 1), end |-> z]

\* One match of a pattern at position i, as re.findall reports it: a tuple
\* (num, name) for a pattern of two groups, the string num for one group.
MatchAt(t, i, pattern) ==
    LET n == NumberAt(t, i, pattern.keyword)
    IN  IF ~n.found THEN NoMatch
        ELSE IF ~pattern.titled
             THEN [found |-> TRUE, groups |-> 1, num |-> n.num, end |-> n.end]
             ELSE LET m == TitleAt(t, n.end)
                  IN  IF ~m.found THEN NoMatch
                      ELSE [found |-> TRUE, groups |-> 2, num |-> n.num,
                            name |-> m.name, end |-> m.end]

RECURSIVE ScanMatches(_, _, _, _)
\* The matches at the candidate positions, left to right, none overlapping
\* the one before it.
ScanMatches(t, pattern, cands, from) ==
    LET rest == {i \in cands : i >= from}
    IN  IF rest = {} THEN <<>>
        ELSE LET i == Min(rest)
                 m == MatchAt(t, i, pattern)
             IN  <<m>> \o ScanMatches(t, pattern, rest, m.end)

\* re.findall(pattern, text, re.IGNORECASE).
FindAll(t, pattern) ==
    ScanMatches(t, pattern,
                {i \in FirstCharAt(t, pattern.keyword) : MatchAt(t, i, pattern).found}, 1)

\* chapters[key] = value.
DictSet(d, key, value) ==
    [n \in DOMAIN d \cup {key} |-> IF n = key THEN value ELSE d[n]]

\* The body of "for match in matches" for one match.
StoreMatch(d, m) ==
    IF m.groups = 2
    THEN DictSet(d, ParseInt(m.num), Strip(m.name))
    ELSE DictSet(d, ParseInt(m.num), "Chapter " \o m.num)

RECURSIVE StoreMatches(_, _)
StoreMatches(d, ms) ==
    IF ms = <<>> THEN d ELSE StoreMatches(StoreMatch(d, Head(ms)), Tail(ms))

\* One iteration of "for pattern in CHAPTER_PATTERNS".
ApplyPattern(d, t, pattern) == StoreMatches(d, FindAll(t, pattern))

extract_chapters(text) ==
    ApplyPattern(ApplyPattern(ApplyPattern(ApplyPattern(EmptyDict, text,
        CHAPTER_PATTERNS[1]), text, CHAPTER_PATTERNS[2]), text,
        CHAPTER_PATTERNS[3]), text, CHAPTER_PATTERNS[4])

-----------------------------------------------------------------------------
(* The chapter-scoped selectors: chatbot_response and the Generate column  *)
(* of main().                                                              *)

\* f"Chapter {num}: {name}": the heading both selectors rebuild, and an
\* entry of chapter_options.
ChapterTitle(num, name) == "Chapter " \o FormatInt(num) \o ": " \o name

\* Chapter\s+\d+: at position q (chatbot_response's pattern, re.IGNORECASE).
HeadingAt(t, q) ==
    /\ LiteralAt(t, q, "chapter")
    /\ LET s == q + 7
           d == SpaceRun(t, s)
           e == DigitRun(t, d)
       IN  d > s /\ e > d /\ e <= Len(t) /\ Char(t, e) = ":"

RECURSIVE LetterRun(_, _, _)
\* c+ from position i for a letter c under re.IGNORECASE, greedy.
LetterRun(t, i, c) ==
    IF i <= Len(t) /\ LowerChar(Char(t, i)) = c THEN LetterRun(t, i + 1, c) ELSE i

\* Chapter\\s+\\d+: at position q (main's pattern: in the raw f-string the
\* doubled backslashes make the regex a literal backslash, then s+, a literal
\* backslash, then d+, then a colon).
EscapedHeadingAt(t, q) ==
    /\ LiteralAt(t, q, "chapter\\")
    /\ LET s == q + 8
           d == LetterRun(t, s, "s")
       IN  /\ d > s
           /\ d <= Len(t)
           /\ Char(t, d) = "\\"
           /\ LET e == LetterRun(t, d + 1, "d")
              IN  e > d + 1 /\ e <= Len(t) /\ Char(t, e) = ":"

\* $ without re.MULTILINE: the end of the string, or just before a newline
\* that ends the string.
DollarAt(t, q) ==
    \/ q = Len(t) + 1
    \/ q = Len(t) /\ Char(t, q) = "\n"

\* pattern.search(text) for re.escape(chapter_title)(.*?)(<next heading>|$)
\* with re.DOTALL | re.IGNORECASE: the match and its group(1).
SearchChapter(text, chapter_title, escaped) ==
    LET w == LowerText(chapter_title)
        starts == {i \in FirstCharAt(text, w) : LiteralAt(text, i, w)}
    IN  IF starts = {} THEN NoMatch
        ELSE LET e == Min(starts) + Len(w)
                 stops == {q \in {Len(text), Len(text) + 1} : q >= e /\ DollarAt(text, q)}
                          \cup {q \in FirstCharAt(text, "chapter") :
                                   q >= e /\ IF escaped THEN EscapedHeadingAt(text, q)
                                                        ELSE HeadingAt(text, q)}
             IN  [found |-> TRUE, group1 |-> SubSeq(text, e, Min(stops) - 1)]

\* A selector that gives no context when the heading is not found.
GroupOrNothing(match, text) == IF match.found THEN Strip(match.group1) ELSE ""

\* "if match: ... = match.group(1).strip() else: ... = <the full text>".
GroupOrText(match, text) == IF match.found THEN Strip(match.group1) ELSE text

\* Python truthiness of selected_chapter (None and 0 are false).
TruthyChapter(n) == n # NoChapter /\ n # 0

\* chatbot_response, lines 78-91: the context before the [:3000] cut.
ChatContext(text, dict, ctype, selected_chapter) ==
    IF ctype = "Book" /\ TruthyChapter(selected_chapter) /\ selected_chapter \in DOMAIN dict
    THEN GroupOrText(SearchChapter(text, ChapterTitle(selected_chapter, dict[selected_chapter]),
                                   FALSE), text)
    ELSE text

RECURSIVE SplitFrom(_, _)
\* str.split(): the maximal runs of non-whitespace characters from position i.
SplitFrom(s, i) ==
    LET a == SpaceRun(s, i)
    IN  IF a > Len(s) THEN <<>>
        ELSE LET ends == {k \in a..Len(s) : k = Len(s) \/ IsSpace(Char(s, k + 1))}
                 b == Min(ends)
             IN  <<SubSeq(s, a, b)>> \o SplitFrom(s, b + 1)

Split(s) == SplitFrom(s, 1)

RECURSIVE RemoveColons(_)
\* s.replace(":", "")
RemoveColons(s) ==
    IF Len(s) = 0 THEN ""
    ELSE (IF Char(s, 1) = ":" THEN "" ELSE Char(s, 1)) \o RemoveColons(SubSeq(s, 2, Len(s)))

\* int(chapter_choice.split()[1].replace(":", ""))
ChoiceNumber(chapter_choice) == ParseInt(RemoveColons(Split(chapter_choice)[2]))

\* ["All"] + chapter_options
ChapterChoices(dict) == {"All"} \cup {ChapterTitle(n, dict[n]) : n \in DOMAIN dict}

\* main, lines 194-208: selected_chapter and chapter_text for a choice of the
\* "Select chapter (optional)" box.
MainSelection(text, dict, ctype, chapter_choice) ==
    IF ctype = "Book" /\ DOMAIN dict # {} /\ chapter_choice # "All"
    THEN LET n == ChoiceNumber(chapter_choice)
         IN  [selected_chapter |-> n,
              chapter_text |-> GroupOrText(SearchChapter(text, ChapterTitle(n, dict[n]),
                                                         TRUE), text)]
    ELSE [selected_chapter |-> NoChapter, chapter_text |-> text]

-----------------------------------------------------------------------------
(* extract_keywords.                                                       *)

LetterSet == {Char(LowerLetters, i) : i \in 1..26}

\* \w for a character of a lower-cased text.
IsWordChar(c) == IsDigit(c) \/ c = "_" \/ c \in LetterSet

RECURSIVE WordRun(_, _)
\* \w+ from position i, greedy: the position after the run.
WordRun(t, i) == IF i <= Len(t) /\ IsWordChar(Char(t, i)) THEN WordRun(t, i + 1) ELSE i

RECURSIVE WordsAt(_, _)
\* The words that start at the given positions, left to right.
WordsAt(t, starts) ==
    IF starts = {} THEN <<>>
    ELSE LET a == Min(starts)
         IN  <<SubSeq(t, a, WordRun(t, a) - 1)>> \o WordsAt(t, starts \ {a})

\* re.findall(r'\b\w+\b', t): the maximal runs of word characters.
Words(t) ==
    WordsAt(t, {i \in 1..Len(t) : /\ IsWordChar(Char(t, i))
                                  /\ (i = 1 \/ ~IsWordChar(Char(t, i - 1)))})

\* set(stopwords.words('english')), as far as the words of the model's texts go.
StopWords ==
    {"i", "me", "my", "we", "our", "you", "your", "he", "him", "his", "she", "her",
     "it", "its", "they", "them", "their", "what", "which", "who", "this", "that",
     "these", "those", "am", "is", "are", "was", "were", "be", "been", "being",
     "have", "has", "had", "do", "does", "did", "a", "an", "the", "and", "but",
     "if", "or", "because", "as", "until", "while", "of", "at", "by", "for",
     "with", "about", "against", "between", "into", "through", "during", "before",
     "after", "above", "below", "to", "from", "up", "down", "in", "out", "on",
     "off", "over", "under", "again", "further", "then", "once", "here", "there",
     "when", "where", "why", "how", "all", "any", "both", "each", "few", "more",
     "most", "other", "some", "such", "no", "nor", "not", "only", "own", "same",
     "so", "than", "too", "very", "s", "t", "can", "will", "just", "don",
     "should", "now"}

\* "w not in stop_words and len(w) > 2"
KeepWord(w) == w \notin StopWords /\ Len(w) > 2

RECURSIVE Filtered(_)
\* [w for w in words if ...]
Filtered(ws) ==
    IF ws = <<>> THEN <<>>
    ELSE (IF KeepWord(Head(ws)) THEN <<Head(ws)>> ELSE <<>>) \o Filtered(Tail(ws))

RECURSIVE Counter(_, _)
\* Counter(filtered): the items (word, count) in the order the words first
\* occur (a dict keeps insertion order); acc is the Counter so far.
Counter(acc, ws) ==
    IF ws = <<>> THEN acc
    ELSE LET w == Head(ws)
             at == {i \in DOMAIN acc : acc[i].word = w}
         IN  IF at = {}
             THEN Counter(Append(acc, [word |-> w, count |-> 1]), Tail(ws))
             ELSE Counter([i \in DOMAIN acc |->
                              IF i \in at THEN [word |-> w, count |-> acc[i].count + 1]
                              ELSE acc[i]], Tail(ws))

\* A sort that puts a word before the earlier words of the same count.
InsertBeforeTies(sorted, x) ==
    LET k == Cardinality({i \in DOMAIN sorted : sorted[i].count > x.count})
    IN  SubSeq(sorted, 1, k) \o <<x>> \o SubSeq(sorted, k + 1, Len(sorted))

\* One step of the stable sort by descending count: x goes after every item
\* whose count is at least its own.
InsertByCount(sorted, x) ==
    LET k == Cardinality({i \in DOMAIN sorted : sorted[i].count >= x.count})
    IN  SubSeq(sorted, 1, k) \o <<x>> \o SubSeq(sorted, k + 1, Len(sorted))

RECURSIVE SortByCount(_, _)
\* sorted(items, key=itemgetter(1), reverse=True), which heapq.nlargest equals.
SortByCount(sorted, items) ==
    IF items = <<>> THEN sorted
    ELSE SortByCount(InsertByCount(sorted, Head(items)), Tail(items))

\* Counter.most_common(n) for n >= 0.
MostCommon(items, n) ==
    LET sorted == SortByCount(<<>>, items)
    IN  SubSeq(sorted, 1, IF n < Len(sorted) THEN n ELSE Len(sorted))

extract_keywords(text, num_keywords) ==
    LET most_common == MostCommon(Counter(<<>>, Filtered(Words(LowerText(text)))), num_keywords)
    IN  [i \in 1..Len(most_common) |-> most_common[i].word]

\* num_keywords=10
DefaultKeywords == 10

-----------------------------------------------------------------------------
(* The prompts handed to TextGenerator.generate_text.                      *)

\* The 3000 of context[:3000] and chapter_text[:3000].
ContextChars == 3000

\* A cut that keeps one character too many.
TruncateOneMore(s, n) == SubSeq(s, 1, IF Len(s) < n + 1 THEN Len(s) ELSE n + 1)

\* s[:n]
Truncate(s, n) == SubSeq(s, 1, IF Len(s) < n THEN Len(s) ELSE n)

prompt_map ==
    [t \in {"Lesson Plan", "MCQs", "Short Questions"} |->
        CASE t = "Lesson Plan" -> "Create a lesson plan for the following content:"
          [] t = "MCQs" -> "Generate multiple choice questions for the following content:"
          [] t = "Short Questions" -> "Generate short answer questions for the following content:"]

Tasks == {"Lesson Plan", "MCQs", "Short Questions", "Summarize", "Extract Keywords"}

\* main, lines 217-231: the prompt of a task other than "Extract Keywords".
GeneratePrompt(task, chapter_text) ==
    IF task = "Summarize"
    THEN "Summarize the following content:\n\n" \o Truncate(chapter_text, ContextChars)
    ELSE prompt_map[task] \o "\n\n" \o Truncate(chapter_text, ContextChars)

\* chatbot_response, lines 93-101.
ChatPrompt(user_input, context) ==
    "You are an educational assistant. The user uploaded the following content:\n\n"
    \o Truncate(context, ContextChars)
    \o "\n\nUser question: " \o user_input
    \o "\n\nPlease provide a clear, concise and helpful answer based on the above content."

RECURSIVE JoinWith(_, _)
\* sep.join(items)
JoinWith(sep, items) ==
    IF items = <<>> THEN ""
    ELSE IF Len(items) = 1 THEN items[1]
    ELSE items[1] \o sep \o JoinWith(sep, Tail(items))

\* main, lines 215-216.
KeywordsResult(chapter_text) ==
    "Keywords: " \o JoinWith(", ", extract_keywords(chapter_text, DefaultKeywords))

-----------------------------------------------------------------------------
(* The initial session: the state after the first run of main() with no    *)
(* interaction.                                                            *)

NoFile == "<no file>"

SessionInit ==
    /\ content_type = "Syllabus"
    /\ uploaded_file = NoFile
    /\ chat_input = ""
    /\ extracted_text = None
    /\ chapters = EmptyDict
    /\ chat_history = <<>>
    /\ all_generated = <<>>
    /\ trigger = "load"
    /\ buttons = {"Reset Session"}
    /\ exported = <<>>
    /\ parsed = None
    /\ error = {}

-----------------------------------------------------------------------------
(* The documents of the model and the parsers.                             *)

RECURSIVE Repeat(_, _)
\* s * n
Repeat(s, n) ==
    IF n = 0 THEN ""
    ELSE LET h == Repeat(s, n \div 2)
         IN  h \o h \o (IF n % 2 = 1 THEN s ELSE "")

\* The files the user can hand to st.file_uploader(type=["pdf", "docx"]).
Files == {"book.pdf", "Notes.DOCX", "long.pdf", "broken.pdf"}

\* PyPDF2.PdfReader(pdf_file).pages, as the text page.extract_text() gives for
\* each page (None for a page without text); Corrupt when PdfReader raises.
Corrupt == <<"<corrupt>">>

PdfPages(file) ==
    CASE file = "book.pdf" -> <<"Chapter 1: A\nfoo\n", None, "Chapter 2: B\nbar">>
      [] file = "long.pdf" ->
            <<"Chapter 1: A\n" \o Repeat("#########\n", 1199), "Chapter 9: Z\nend">>
      [] OTHER -> Corrupt

RECURSIVE ConcatPages(_)
\* for page in reader.pages: text += page.extract_text() or ""
ConcatPages(pages) ==
    IF pages = <<>> THEN ""
    ELSE (IF Head(pages) = None THEN "" ELSE Head(pages)) \o ConcatPages(Tail(pages))

\* PDFParser.extract_text: the text, or Raised.
Raised == "<raised>"

PDFParser_extract_text(file) ==
    IF PdfPages(file) = Corrupt THEN Raised ELSE ConcatPages(PdfPages(file))

\* DOCXParser.extract_text: the text of the document.
DOCXParser_extract_text(file) ==
    IF file = "Notes.DOCX" THEN "the cat sat on the mat the cat ran" ELSE Raised

\* uploaded_file.name.lower().endswith(suffix)
NameEndsWith(name, suffix) ==
    /\ Len(name) >= Len(suffix)
    /\ SubSeq(LowerText(name), Len(name) - Len(suffix) + 1, Len(name)) = suffix

\* main, lines 160-167: the parser picked by the file's name and what it returns.
ParseUpload(file) ==
    IF NameEndsWith(file, ".pdf") THEN PDFParser_extract_text(file)
    ELSE IF NameEndsWith(file, ".docx") THEN DOCXParser_extract_text(file)
    ELSE Raised

\* MAX_CHARS = 12000
MAX_CHARS == 12000

\* An upload stored as the parser returned it.
KeepWholeUpload(text) == text

\* main, lines 168-170: "extracted_text = extracted_text[:MAX_CHARS]".
LimitUpload(text) == IF Len(text) > MAX_CHARS THEN Truncate(text, MAX_CHARS) ELSE text

\* main, lines 177-180: the chapter map kept after an upload.
ChaptersAfterUpload(old, ctype, text) ==
    IF ctype = "Book"
    THEN LET found == extract_chapters(text)
         IN  IF DOMAIN found # {} THEN found ELSE old
    ELSE old

\* TextGenerator.generate_text: a string, or Raised.
Responses == {"Generated text."}

GeneratorOutcomes == Responses \cup {Raised}

\* Python truthiness of a str or None.
Truthy(t) == t # None /\ t # ""

-----------------------------------------------------------------------------
(* Document export.                                                        *)

RECURSIVE SplitLinesFrom(_, _)
\* text.split('\n')
SplitLinesFrom(text, i) ==
    LET z == LineRun(text, i)
    IN  IF z > Len(text) THEN <<SubSeq(text, i, Len(text))>>
        ELSE <<SubSeq(text, i, z - 1)>> \o SplitLinesFrom(text, z + 1)

\* export_to_pdf: one multi_cell per line of the text.
export_to_pdf(text) == [file_name |-> "all_content.pdf", cells |-> SplitLinesFrom(text, 1)]

\* export_to_word: one paragraph holding the text.
export_to_word(text) == [file_name |-> "all_content.docx", paragraphs |-> <<text>>]

\* main, lines 239-245.
ExportAll(log, export_format) ==
    LET all_text == JoinWith("\n\n", log)
    IN  IF export_format = "PDF" THEN export_to_pdf(all_text) ELSE export_to_word(all_text)

-----------------------------------------------------------------------------
(* The session: one user interaction starts one run of main(), which goes  *)
(* through the sidebar, the upload section, the Generate column and the    *)
(* chat column.  st.button(label) is true only in the run its click        *)
(* started.                                                                *)

Pressed(label) == trigger = label

Question == "What is this?"

Init ==
    /\ SessionInit
    /\ pc = "idle"
    /\ args = <<>>
    /\ ret = <<>>

\* A run the interaction starts; the chat column of a run with a question in
\* chat_input appends to chat_history, which the model bounds.
StartRun(by, question) ==
    /\ pc = "idle"
    /\ question = "" \/ Len(chat_history) < MaxChat
    /\ trigger' = by
    /\ error' = {}
    /\ buttons' = {"Reset Session"}
    /\ pc' = "sidebar"
    /\ UNCHANGED <<extracted_text, chapters, chat_history, all_generated, exported,
                   parsed, args, ret>>

ChooseContentType(c) ==
    /\ c # content_type
    /\ StartRun("widget", chat_input)
    /\ content_type' = c
    /\ UNCHANGED <<uploaded_file, chat_input>>

UploadFile(f) ==
    /\ f # uploaded_file
    /\ StartRun("widget", chat_input)
    /\ uploaded_file' = f
    /\ UNCHANGED <<content_type, chat_input>>

EditChatInput(q) ==
    /\ q # chat_input
    /\ StartRun("widget", q)
    /\ chat_input' = q
    /\ UNCHANGED <<content_type, uploaded_file>>

\* The theme, task, export format or a chapter box changes.
ChangeOtherWidget ==
    /\ StartRun("widget", chat_input)
    /\ UNCHANGED <<content_type, uploaded_file, chat_input>>

ClickReset ==
    /\ StartRun("Reset Session", "")
    /\ UNCHANGED <<content_type, uploaded_file, chat_input>>

ClickGenerate ==
    /\ "Generate" \in buttons
    /\ Len(all_generated) < MaxGenerated
    /\ StartRun("Generate", chat_input)
    /\ UNCHANGED <<content_type, uploaded_file, chat_input>>

ClickExport ==
    /\ "Export All Generated Content" \in buttons
    /\ StartRun("Export All Generated Content", chat_input)
    /\ UNCHANGED <<content_type, uploaded_file, chat_input>>

\* main, lines 136-149, the button pressed: the four keys are deleted and
\* st.rerun() starts the script again, where the button reads false and the
\* missing keys get their defaults.
ResetSession ==
    /\ pc = "sidebar"
    /\ Pressed("Reset Session")
    /\ extracted_text' = None
    /\ chapters' = EmptyDict
    /\ chat_history' = <<>>
    /\ all_generated' = <<>>
    /\ trigger' = "rerun"
    /\ pc' = "upload"
    /\ UNCHANGED <<content_type, uploaded_file, chat_input, buttons, exported, parsed,
                   error, args, ret>>

\* main, lines 136-149, the button not pressed: every key is there already.
SessionDefaults ==
    /\ pc = "sidebar"
    /\ ~Pressed("Reset Session")
    /\ pc' = "upload"
    /\ UNCHANGED <<session, args, ret>>

\* main, lines 151-188.
UploadSection ==
    /\ pc = "upload"
    /\ IF uploaded_file = NoFile
       THEN /\ pc' = IF Truthy(extracted_text) THEN "generate" ELSE "idle"
            /\ UNCHANGED <<extracted_text, chapters, parsed, error>>
       ELSE LET text == ParseUpload(uploaded_file)
                limited == LimitUpload(text)
            IN  IF text = Raised
                THEN /\ error' = error \cup {"Error extracting text"}
                     /\ pc' = "idle"
                     /\ UNCHANGED <<extracted_text, chapters, parsed>>
                ELSE /\ parsed' = text
                     /\ extracted_text' = limited
                     /\ chapters' = ChaptersAfterUpload(chapters, content_type, limited)
                     /\ pc' = IF Truthy(limited) THEN "generate" ELSE "idle"
                     /\ UNCHANGED error
    /\ UNCHANGED <<content_type, uploaded_file, chat_input, chat_history, all_generated,
                   trigger, buttons, exported, args, ret>>

\* The choices a chapter box offers (lines 196-198 and 249-251).
OfferedChoices ==
    IF content_type = "Book" /\ DOMAIN chapters # {} THEN ChapterChoices(chapters) ELSE {"All"}

\* main, lines 214-231: the result of a task, keywords_result being what the
\* "Extract Keywords" branch computes and outcome the generator's answer.
TaskResult(task, keywords_result, outcome) ==
    IF task = "Extract Keywords" THEN keywords_result ELSE outcome

\* A handler that logs the failure of the generator too.
LogEveryResult(log, result) == Append(log, result)

\* main, lines 211-237: the log after the try block.
LogAfterGenerate(log, result) == IF result = Raised THEN log ELSE Append(log, result)

\* main, lines 189-245.
GenerateColumn ==
    /\ pc = "generate"
    /\ \E chapter_choice \in OfferedChoices :
       LET chapter_text == MainSelection(extracted_text, chapters, content_type,
                                         chapter_choice).chapter_text
           keywords_result == KeywordsResult(chapter_text)
       IN \E task \in Tasks, export_format \in {"PDF", "Word"}, outcome \in GeneratorOutcomes :
          LET result == TaskResult(task, keywords_result, outcome)
          IN  IF Pressed("Generate")
              THEN /\ all_generated' = LogAfterGenerate(all_generated, result)
                   /\ error' = IF result = Raised
                               THEN error \cup {"Error during content generation"}
                               ELSE error
                   /\ buttons' = buttons \cup {"Generate", "Export All Generated Content"}
                   /\ exported' = IF Pressed("Export All Generated Content")
                                  THEN <<ExportAll(LogAfterGenerate(all_generated, result),
                                                   export_format)>>
                                  ELSE exported
              ELSE /\ buttons' = buttons \cup {"Generate"}
                   /\ UNCHANGED <<all_generated, error, exported>>
    /\ pc' = "chat"
    /\ UNCHANGED <<content_type, uploaded_file, chat_input, extracted_text, chapters,
                   chat_history, trigger, parsed, args, ret>>

\* main, lines 257-265: the history after the try block.
HistoryAfterChat(history, user_input, response, selected_chapter) ==
    IF response = Raised THEN history
    ELSE Append(history, [user |-> user_input, bot |-> response, chapter |-> selected_chapter])

\* main, lines 248-253.
ChatChapter(chapter_choice) ==
    IF chapter_choice = "All" THEN NoChapter ELSE ChoiceNumber(chapter_choice)

\* main, lines 247-295.
ChatColumn ==
    /\ pc = "chat"
    /\ \E chapter_choice \in OfferedChoices, response \in GeneratorOutcomes :
          IF chat_input # ""
          THEN /\ chat_history' = HistoryAfterChat(chat_history, chat_input, response,
                                                  ChatChapter(chapter_choice))
               /\ error' = IF response = Raised
                           THEN error \cup {"Error during chat response"}
                           ELSE error
          ELSE UNCHANGED <<chat_history, error>>
    /\ pc' = "idle"
    /\ UNCHANGED <<content_type, uploaded_file, chat_input, extracted_text, chapters,
                   all_generated, trigger, buttons, exported, parsed, args, ret>>

Interaction ==
    \/ \E c \in {"Syllabus", "Book"} : ChooseContentType(c)
    \/ \E f \in Files \cup {NoFile} : UploadFile(f)
    \/ \E q \in {"", Question} : EditChatInput(q)
    \/ ChangeOtherWidget
    \/ ClickReset
    \/ ClickGenerate
    \/ ClickExport

Script == ResetSession \/ SessionDefaults \/ UploadSection \/ GenerateColumn \/ ChatColumn

Next == Interaction \/ Script

Spec == Init /\ [][Next]_vars

\* A script run that has started reaches the end of main().
RunEnds == pc # "idle" /\ pc' = "idle"

\* A run of main() goes to its end, and the user goes on using the page,
\* pressing Generate and the export button again and again while they are shown.
FairSpec ==
    /\ Spec
    /\ WF_pc(RunEnds)
    /\ SF_vars(ClickGenerate)
    /\ SF_vars(ClickExport)

-----------------------------------------------------------------------------
(* ChapterSpec: extract_chapters on texts made of heading and plain lines,  *)
(* one pattern of CHAPTER_PATTERNS per step.                               *)

ChapterLines ==
    {"Chapter 3: Intro", "Chapter 4: Next", "CHAPTER 2", "Section 5: Basics",
     "chapter 3 - Recap", "plain text"}

\* The text whose lines are the given ones.
JoinLines(lines) == JoinWith("\n", lines)

LineSeqs(S, n) == UNION {[1..k -> S] : k \in 0..n}

ChapterInit ==
    /\ SessionInit
    /\ pc = "extract_chapters"
    /\ \E lines \in LineSeqs(ChapterLines, MaxLines) :
          args = [lines |-> lines, text |-> JoinLines(lines)]
    /\ ret = [chapters |-> EmptyDict, next |-> 1]

ApplyNextPattern ==
    /\ pc = "extract_chapters"
    /\ ret.next <= Len(CHAPTER_PATTERNS)
    /\ ret' = [chapters |-> ApplyPattern(ret.chapters, args.text, CHAPTER_PATTERNS[ret.next]),
               next |-> ret.next + 1]
    /\ pc' = IF ret.next = Len(CHAPTER_PATTERNS) THEN "return" ELSE pc
    /\ UNCHANGED <<session, args>>

ChapterNext == ApplyNextPattern

ChapterSpec == ChapterInit /\ [][ChapterNext]_vars

-----------------------------------------------------------------------------
(* SelectSpec: both selectors on the same text, chapter map and chapter.   *)

SelectLines == {"Chapter 1: A", "foo", "Chapter 2: B", "bar"}

SelectExtraTexts ==
    {"chapter 1: a\n  foo bar \nCHAPTER  2: B\nbar\n",
     "Intro\nChapter 0: Z\nzero\nChapter 1: A\none",
     "Chapter 1: A\nfoo\nChapter\\s\\d:\nbar\nChapter 2: B",
     "CHAPTER 2\nfoo\nSection 1: A\nbar",
     "Chapter 1: Chapter 1\nfoo\nChapter 2: Chapter 2\nbar"}

SelectTexts ==
    {JoinLines(l) : l \in LineSeqs(SelectLines, MaxSelectLines)} \cup SelectExtraTexts

SelectDicts ==
    {(1 :> "A" @@ 2 :> "B"), (0 :> "Z" @@ 1 :> "A")}

SelectInit ==
    /\ SessionInit
    /\ pc = "select"
    /\ \E text \in SelectTexts :
       \E dict \in SelectDicts \cup {extract_chapters(text)} :
       \E n \in DOMAIN dict :
          args = [text |-> text, chapters |-> dict, chapter |-> n]
    /\ ret = [main |-> None, chat |-> None]

\* The Generate column's selector, the user having picked chapter n's option.
SelectInGenerate ==
    /\ pc = "select"
    /\ ret.main = None
    /\ ret' = [ret EXCEPT !.main =
                  MainSelection(args.text, args.chapters, "Book",
                                ChapterTitle(args.chapter, args.chapters[args.chapter])).chapter_text]
    /\ UNCHANGED <<session, args, pc>>

\* chatbot_response's selector for selected_chapter = n.
SelectInChat ==
    /\ pc = "select"
    /\ ret.chat = None
    /\ ret' = [ret EXCEPT !.chat = ChatContext(args.text, args.chapters, "Book", args.chapter)]
    /\ UNCHANGED <<session, args, pc>>

SelectNext == SelectInGenerate \/ SelectInChat

SelectSpec == SelectInit /\ [][SelectNext]_vars

-----------------------------------------------------------------------------
(* KeywordSpec: extract_keywords on texts of a few words.                  *)

KeywordWords == {"the", "cat", "Cat,", "sat", "ox"}

KeywordExtraTexts ==
    {"the cat sat on the mat the cat ran",
     "a_b1 A_B1  x-ray 42nd\n42ND\ttab bed.bed",
     "Mat mat on the MAT; ran, Ran cat"}

KeywordTexts ==
    {JoinWith(" ", l) : l \in LineSeqs(KeywordWords, MaxWords)} \cup KeywordExtraTexts

KeywordInit ==
    /\ SessionInit
    /\ pc = "extract_keywords"
    /\ \E text \in KeywordTexts : \E k \in 0..MaxKeywords :
          args = [text |-> text, num_keywords |-> k]
    /\ ret = <<>>

CallExtractKeywords ==
    /\ pc = "extract_keywords"
    /\ ret' = extract_keywords(args.text, args.num_keywords)
    /\ pc' = "return"
    /\ UNCHANGED <<session, args>>

KeywordNext == CallExtractKeywords

KeywordSpec == KeywordInit /\ [][KeywordNext]_vars

-----------------------------------------------------------------------------
(* PromptSpec: the prompt builders on contexts around the 3000-character   *)
(* cut.                                                                    *)

PromptContexts ==
    {"", "Chapter 1: A\nfoo"} \cup
    {Repeat(".", ContextChars + k) \o "#END" : k \in {-ContextChars, -5, -4, -3, -2, -1, 0, 1, 2, ContextChars}}

PromptInit ==
    /\ SessionInit
    /\ pc = "prompt"
    /\ \E task \in (Tasks \ {"Extract Keywords"}) \cup {"Chat"} :
       \E context \in PromptContexts :
       \E user_input \in {"What is this?", "Why?"} :
          args = [task |-> task, context |-> context, user_input |-> user_input]
    /\ ret = None

\* The Generate handler builds the prompt of one of its four generator tasks.
BuildGeneratePrompt ==
    /\ pc = "prompt"
    /\ args.task # "Chat"
    /\ ret' = GeneratePrompt(args.task, args.context)
    /\ pc' = "return"
    /\ UNCHANGED <<session, args>>

\* chatbot_response builds the chat prompt (no chapter selected).
BuildChatPrompt ==
    /\ pc = "prompt"
    /\ args.task = "Chat"
    /\ ret' = ChatPrompt(args.user_input,
                         ChatContext(args.context, EmptyDict, "Syllabus", NoChapter))
    /\ pc' = "return"
    /\ UNCHANGED <<session, args>>

PromptNext == BuildGeneratePrompt \/ BuildChatPrompt

PromptSpec == PromptInit /\ [][PromptNext]_vars

-----------------------------------------------------------------------------
(* The claims.                                                             *)

\* ---- C1 (ChapterSpec) ----

\* The lines of ChapterLines of the form "Chapter N: Title", with N and Title.
TitledHeadings ==
    { [line |-> "Chapter 3: Intro", num |-> 3, title |-> "Intro"],
      [line |-> "Chapter 4: Next", num |-> 4, title |-> "Next"] }

HeadingOfLine(l) == CHOOSE h \in TitledHeadings : h.line = l

\* Every heading of the text is a "Chapter N: Title" line, the numbers distinct.
OnlyTitledHeadings(lines) ==
    /\ \A i \in DOMAIN lines : lines[i] \in {h.line : h \in TitledHeadings} \cup {"plain text"}
    /\ \A i, j \in DOMAIN lines : (lines[i] = lines[j] /\ lines[i] # "plain text") => i = j

TitledMap(lines) ==
    LET hs == {HeadingOfLine(lines[i]) : i \in {k \in DOMAIN lines : lines[k] # "plain text"}}
    IN  [n \in {h.num : h \in hs} |-> (CHOOSE h \in hs : h.num = n).title]

\* C1: for every text whose headings are lines "Chapter N: Title" with
\* distinct numbers N, extract_chapters, all four patterns applied in order,
\* returns the map that sends each N to its Title ("Chapter 3: Intro" and
\* "Chapter 4: Next" give {3: "Intro", 4: "Next"}).
C1_TitlesDetected ==
    (pc = "return" /\ OnlyTitledHeadings(args.lines)) => ret.chapters = TitledMap(args.lines)

\* ---- C2, C3 (SelectSpec) ----

BothSelected == ret.main # None /\ ret.chat # None

\* The positions where the rebuilt heading of the chapter occurs, whatever the case.
HeadingOccurrences ==
    LET h == LowerText(ChapterTitle(args.chapter, args.chapters[args.chapter]))
    IN  {i \in 1..(Len(args.text) - Len(h) + 1) :
            LowerText(SubSeq(args.text, i, i + Len(h) - 1)) = h}

\* The trimmed text between the first occurrence of the rebuilt heading and
\* the next "Chapter N:" heading, or the end of the text.
TextOfChapter ==
    LET h == ChapterTitle(args.chapter, args.chapters[args.chapter])
        e == Min(HeadingOccurrences) + Len(h)
        next == {q \in e..Len(args.text) : HeadingAt(args.text, q)}
    IN  Strip(SubSeq(args.text, e, (IF next = {} THEN Len(args.text) + 1 ELSE Min(next)) - 1))

\* C2: when the rebuilt heading "Chapter {n}: {title}" of a chapter n >= 1
\* occurs in the text, the context selected for n is the trimmed text between
\* that heading and the next "Chapter N:" heading (or the end of the text), in
\* the Generate handler as in chatbot_response.
C2_ChapterTextSelected ==
    (BothSelected /\ args.chapter >= 1 /\ HeadingOccurrences # {})
        => (ret.main = TextOfChapter /\ ret.chat = TextOfChapter)

\* C3: when the rebuilt heading of a chapter of the map does not occur in the
\* text (whatever the case), both selectors return the full text unchanged.
C3_FallbackToFullText ==
    (BothSelected /\ HeadingOccurrences = {})
        => (ret.main = args.text /\ ret.chat = args.text)

\* Both selectors have run on a detected chapter whose rebuilt heading is not
\* in the text it was detected in.
C3_Witness ==
    /\ BothSelected
    /\ HeadingOccurrences = {}
    /\ args.chapters = extract_chapters(args.text)
    /\ args.text = "Chapter 1: A\nfoo\nChapter 2: B\nbar"
    /\ ret.main = args.text
    /\ ret.chat = args.text

\* ---- C4 (PromptSpec) ----

\* The template prefixes of the four generator tasks.
TemplatePrefix ==
    [t \in Tasks \ {"Extract Keywords"} |->
        CASE t = "Lesson Plan" -> "Create a lesson plan for the following content:"
          [] t = "MCQs" -> "Generate multiple choice questions for the following content:"
          [] t = "Short Questions" -> "Generate short answer questions for the following content:"
          [] t = "Summarize" -> "Summarize the following content:"]

\* The first min(3000, len(context)) characters of the context.
KeptContext ==
    SubSeq(args.context, 1, IF Len(args.context) < 3000 THEN Len(args.context) ELSE 3000)

\* C4: the prompt of every task embeds exactly the first min(3000, len)
\* characters of the context and none after them; for the four Generate tasks
\* it is the template prefix, a blank line and that truncated context.
C4_PromptTruncated ==
    pc = "return" =>
        IF args.task = "Chat"
        THEN ret = "You are an educational assistant. The user uploaded the following content:\n\n"
                   \o KeptContext \o "\n\nUser question: " \o args.user_input
                   \o "\n\nPlease provide a clear, concise and helpful answer based on the above content."
        ELSE ret = TemplatePrefix[args.task] \o "\n\n" \o KeptContext

\* A prompt was built from a context longer than 3000 characters.
C4_Witness ==
    /\ pc = "return"
    /\ args.task = "Summarize"
    /\ Len(args.context) = 3001 + Len("#END")
    /\ Len(ret) = Len("Summarize the following content:") + 2 + 3000

\* ---- C5 (KeywordSpec) ----

AllWords == Words(LowerText(args.text))

Occurrences(w) == {i \in DOMAIN AllWords : AllWords[i] = w}

\* The tokens that are no stop word and longer than two characters.
Eligible == {AllWords[i] : i \in {k \in DOMAIN AllWords :
                                     AllWords[k] \notin StopWords /\ Len(AllWords[k]) > 2}}

\* v is more frequent than w, or as frequent and first seen earlier.
RanksBefore(v, w) ==
    \/ Cardinality(Occurrences(v)) > Cardinality(Occurrences(w))
    \/ /\ Cardinality(Occurrences(v)) = Cardinality(Occurrences(w))
       /\ Min(Occurrences(v)) < Min(Occurrences(w))

\* C5: extract_keywords(text, k) returns at most k distinct lower-cased tokens,
\* none a stop word or of length <= 2: the most frequent of the remaining
\* tokens by descending frequency, equal frequencies by first occurrence.
C5_KeywordsRanked ==
    pc = "return" =>
        /\ Len(ret) = (IF Cardinality(Eligible) < args.num_keywords
                       THEN Cardinality(Eligible) ELSE args.num_keywords)
        /\ \A i \in DOMAIN ret : ret[i] \in Eligible
        /\ \A i, j \in DOMAIN ret : i < j => RanksBefore(ret[i], ret[j])
        /\ \A w \in Eligible : \A i \in DOMAIN ret :
              (\A j \in DOMAIN ret : ret[j] # w) => RanksBefore(ret[i], w)

\* The example of the specification: a tie between sat, mat and ran.
C5_Witness ==
    /\ pc = "return"
    /\ args.text = "the cat sat on the mat the cat ran"
    /\ args.num_keywords = 2
    /\ ret = <<"cat", "sat">>

\* ---- C6 (Spec) ----

\* The stored text is None or the first 12000 characters of what the parser
\* returned for the last successful upload.
StoredTextTruncated ==
    \/ extracted_text = None
    \/ /\ parsed # None
       /\ Len(extracted_text) <= 12000
       /\ extracted_text = SubSeq(parsed, 1, IF Len(parsed) < 12000 THEN Len(parsed) ELSE 12000)

\* What a step of main() detects or extracts, it derives from the stored text.
ReadsStoredText ==
    /\ (pc = "upload" /\ chapters' # chapters) => chapters' = extract_chapters(extracted_text')
    /\ (pc = "generate" /\ all_generated' # all_generated) =>
          all_generated'[Len(all_generated')] \in
              Responses \cup {KeywordsResult(MainSelection(extracted_text, chapters,
                                                            content_type, c).chapter_text) :
                                 c \in OfferedChoices}

C7_ResetRestoresInitial ==
    (pc = "idle" /\ trigger = "rerun") =>
        /\ extracted_text = None
        /\ chapters = EmptyDict
        /\ chat_history = <<>>
        /\ all_generated = <<>>

\* ---- C8 (Spec) ----

GenerationFailed == "Error during content generation" \in error

ChatFailed == "Error during chat response" \in error

C10_ChaptersOfStoredText ==
    (pc \in {"generate", "chat"} /\ content_type = "Book" /\ DOMAIN chapters # {})
        => chapters = extract_chapters(extracted_text)

====
